---- MODULE Spec2Model ----
(***************************************************************************)
(* Content-script image pipeline of the AI Reading Upscale extension:      *)
(* detection passes (processImage), the sequential upscale queue           *)
(* (processQueue), loading decorations and user notifications.             *)
(*                                                                         *)
(* One action is one run-to-completion task of the page's event loop: a    *)
(* handler's synchronous code up to its next await.  processImage has no   *)
(* await, so a detection pass, the queue insertion and the synchronous     *)
(* start of processQueue (up to `await extractImageAsBase64`) are one      *)
(* step.                                                                   *)
(***************************************************************************)
EXTENDS Integers, Sequences, FiniteSets, TLC

\* ---------------------------------------------------------------- bounds
NumElems == 3            \* <img> elements the page may hold
NumUrls == 2             \* distinct original image URLs
NumPositions == 2        \* distinct vertical offsets
MaxDetected == 3         \* detection events stop once totalDetected reaches it
MaxObservers == 2        \* startImageDetection is not run more often than this
MaxBatch == 2            \* attribute-mutation records delivered in one callback
MaxWatchers == 2         \* attributes of an element with this many URL watchers stay as they are
PageLoadTime == 20000    \* Date.now() when the script starts (ms)
TickStep == 5000         \* the clock advances in steps of this many ms
MaxTime == 30000         \* the clock is not advanced past this value

\* ------------------------------------------------------ program constants
NOTIFICATION_COOLDOWN == 10000

Elems == 1..NumElems
Urls == 1..NumUrls
Handlers == {"MangaDex", "Webtoon", "AsuraScans", "Generic"}

\* The page: element e shows URL PageUrl(e) at vertical offset PagePosition(e).
\* Consecutive elements cycle through the URLs, so elements NumUrls apart share
\* one; each row of NumUrls elements has one offset, so neighbours tie.
PageUrl(e) == ((e - 1) % NumUrls) + 1
PagePosition(e) == (((e - 1) \div NumUrls) % NumPositions) + 1

VARIABLES
  currentSiteHandler,   \* name of the handler selected by init()
  initPending,          \* the chrome.storage.local.get callback of init() has not run
  isEnabled,
  bodyObservers,        \* body MutationObservers registered by startImageDetection
  lastCommand,          \* history: the last TOGGLE_EXTENSION command ("none" before the first)
  inDom,                \* elements currently in the document
  elSrc,                \* img.src of each element
  elDataUrl,            \* data-url attribute of each element (0: absent)
  deco,                 \* loading decoration of each element
  processedImages,
  imageQueue,
  isProcessingQueue,
  workers,              \* the processQueue invocations suspended at an await
  totalDetected,
  totalUpscaled,
  now,                  \* Date.now()
  lastNotificationTime,
  crashed,              \* history: a processQueue invocation ended by an uncaught exception
  oversizeSkipped,      \* history: identifiers skipped for exceeding the size ceiling
  contextInvalidated,   \* history: an item failed with 'Extension context invalidated'
  elDims,               \* whether naturalWidth/naturalHeight of each element are known
  urlObserverAdded,     \* elements with dataset.urlObserverAdded
  urlWatchers,          \* attribute MutationObservers observing each element
  pendingRecords,       \* attribute-mutation records queued for each element's watchers
  loadListenerAdded,    \* elements with dataset.loadListenerAdded
  loadListeners,        \* 'load' listeners of meetsImageCriteria pending on each element
  ext,                  \* one extractImageAsBase64 call
  pageStatsQueue,       \* pageStats.queue: the snapshot sent with PAGE_STATS_UPDATE
  shownAt,              \* history: Date.now() of each notification that was displayed
  crit,                 \* one meetsImageCriteria call: its inputs and what it did
  serverAvailable,      \* background script: the cached availability of the service
  processingQueue,      \* background script: tracked status of each image identifier
  requests,             \* background script: the UPSCALE_IMAGE request of each tab
  deleteTimers,         \* background script: pending setTimeout(() => processingQueue.delete(id))
  upscaleTimes,         \* pageStats.upscaleTimes
  created,              \* history: the number of QueueItems created so far
  sessionStats,         \* chrome.storage.local: sessionStats.totalUpscaled
  savers,               \* each page's pageStats.totalUpscaled and its saveSessionStatistics call
  storedEnabled,        \* chrome.storage.local: the value stored under 'enabled'
  popup,                \* the popup: closed, loading or open, and the status it shows
  toggleMessages        \* TOGGLE_EXTENSION messages sent to the page and not yet delivered

vars == <<currentSiteHandler, initPending, isEnabled, bodyObservers, lastCommand,
          inDom, elSrc,
          elDataUrl, deco, processedImages, imageQueue,
          isProcessingQueue, workers, totalDetected, totalUpscaled, now,
          lastNotificationTime, crashed, oversizeSkipped, contextInvalidated,
          elDims, urlObserverAdded, urlWatchers, pendingRecords,
          loadListenerAdded, loadListeners, ext, pageStatsQueue, shownAt,
          crit, serverAvailable, processingQueue, requests, deleteTimers,
          upscaleTimes, created, sessionStats, savers, storedEnabled, popup,
          toggleMessages>>

\* the state of the background script
BgVars == <<serverAvailable, processingQueue, requests, deleteTimers>>

\* the session statistics in storage and the pages that save them
StatsVars == <<sessionStats, savers>>

\* the popup and the setting it stores
PopupVars == <<storedEnabled, popup>>

\* what only the deferral of lazy-loaded images changes
LazyVars == <<elDims, urlObserverAdded, urlWatchers, pendingRecords,
              loadListenerAdded, loadListeners>>

\* ------------------------------------------------------------ site handlers
isSupportedSite == currentSiteHandler # "Generic"

\* a URL above NumUrls is the data URL of an upscaled result; NoUrl is the
\* empty or placeholder value for which a handler's getImageUrl returns null
NoUrl == 0
IsPageUrl(u) == u \in Urls
DataUrlOf(u) == u + NumUrls

\* the URLs that isAnimatedImage classifies as animated: a .gif extension or
\* a gif, emoji or spinner marker
GifUrl == 2 * NumUrls + 1
AnimatedUrls == {GifUrl}

\* an isAnimatedImage that classifies nothing as animated
isAnimatedImage_Never(u) == FALSE

isAnimatedImage(u) == u \in AnimatedUrls

getImageUrl(e) ==
  IF currentSiteHandler = "Webtoon" /\ elDataUrl[e] # 0
    THEN elDataUrl[e]
    ELSE elSrc[e]

\* asuraIsReadingPage looks for an <img src*="/storage/media/"> in the document
isReadingPage(dom) ==
  IF currentSiteHandler = "AsuraScans"
    THEN \E e \in dom : IsPageUrl(elSrc[e])
    ELSE TRUE

\* asuraIsMangaImage requires /storage/media/ in the live src
isMangaImage(e) ==
  IF currentSiteHandler = "AsuraScans" THEN IsPageUrl(elSrc[e]) ELSE TRUE

btoa(u) == <<"b64", u>>
getImageId(e) == btoa(getImageUrl(e))
getImageVerticalPosition(e) == PagePosition(e)

\* --------------------------------------------------------- loading decoration
\* hidden: style.opacity = '0' / visibility = 'hidden'
\* saved:  dataset.originalOpacity ("none": absent, "0": hidden, "1": visible)
\* overlay: img.loadingOverlay is attached to the parent
\* stale:  overlays in the document that img.loadingOverlay no longer refers to
NoDeco == [hidden |-> FALSE, saved |-> "none", overlay |-> FALSE, stale |-> 0]

addLoadingIndicator(d) ==
  [hidden  |-> TRUE,
   saved   |-> IF d.hidden THEN "0" ELSE "1",
   overlay |-> TRUE,
   stale   |-> IF d.overlay THEN d.stale + 1 ELSE d.stale]

removeLoadingIndicator(d) ==
  [hidden  |-> IF d.hidden THEN d.saved = "0" ELSE FALSE,
   saved   |-> IF d.hidden THEN "none" ELSE d.saved,
   overlay |-> FALSE,
   stale   |-> d.stale]

\* the style and dataset part of replaceImage
replaceImageStyle(d) == [d EXCEPT !.hidden = FALSE, !.saved = "none"]

\* --------------------------------------------------------------- notifications
\* showNotification without its cool-down test
showNotification_NoCooldown(last, t) == t

\* showNotification: last = lastNotificationTime, t = Date.now(); the result is
\* the new lastNotificationTime (it changes exactly when the notification is
\* appended to the document)
showNotification(last, t) ==
  IF t - last < NOTIFICATION_COOLDOWN THEN last ELSE t

\* ------------------------------------------------------------------ the queue
QueueItem(e) ==
  [img |-> e, imageId |-> getImageId(e), actualUrl |-> getImageUrl(e),
   verticalPosition |-> getImageVerticalPosition(e)]

\* a sort that puts an item before the items it ties with
InsertByPosition_BeforeTies(q, it) ==
  LET k == Cardinality({i \in 1..Len(q) : q[i].verticalPosition < it.verticalPosition})
  IN  SubSeq(q, 1, k) \o <<it>> \o SubSeq(q, k + 1, Len(q))

\* imageQueue.sort((a, b) => a.verticalPosition - b.verticalPosition): stable
InsertByPosition(q, it) ==
  LET k == Cardinality({i \in 1..Len(q) : q[i].verticalPosition <= it.verticalPosition})
      \* q is sorted: the first k items are those not after `it`
  IN  SubSeq(q, 1, k) \o <<it>> \o SubSeq(q, k + 1, Len(q))

RECURSIVE SortByPosition(_)
SortByPosition(q) ==
  IF q = <<>> THEN <<>>
  ELSE InsertByPosition(SortByPosition(SubSeq(q, 1, Len(q) - 1)), q[Len(q)])

\* The part of the page state that processImage and processQueue change.
Pipe ==
  [isEnabled |-> isEnabled, inDom |-> inDom,
   imageQueue |-> imageQueue, isProcessingQueue |-> isProcessingQueue,
   workers |-> workers, totalDetected |-> totalDetected, deco |-> deco,
   urlObserverAdded |-> urlObserverAdded, urlWatchers |-> urlWatchers,
   loadListenerAdded |-> loadListenerAdded, loadListeners |-> loadListeners,
   pageStatsQueue |-> pageStatsQueue, created |-> created]

\* imageQueue.map(item => ({id: item.imageId, ...})): the queue as the popup
\* is told of it
QueueSnapshot(q) == [i \in 1..Len(q) |-> q[i].imageId]

\* updatePageStatsQueue: pageStats.queue is rebuilt from imageQueue (and sent
\* with PAGE_STATS_UPDATE)
updatePageStatsQueue(s) == [s EXCEPT !.pageStatsQueue = QueueSnapshot(s.imageQueue)]

\* processQueue without its isProcessingQueue guard
processQueue_NoGuard(s) ==
  IF s.imageQueue = <<>> THEN s
  ELSE [s EXCEPT !.isProcessingQueue = TRUE,
                 !.workers = Append(@, [pc |-> "extract", item |-> Head(s.imageQueue)]),
                 !.imageQueue = Tail(@)]

\* processQueue up to its first await: the guards, the flag, the first shift()
processQueue(s) ==
  IF s.isProcessingQueue THEN s
  ELSE IF s.imageQueue = <<>> THEN s
  ELSE [s EXCEPT !.isProcessingQueue = TRUE,
                 !.workers = Append(@, [pc |-> "extract", item |-> Head(s.imageQueue)]),
                 !.imageQueue = Tail(@)]

\* the two deduplication tests of processImage
AlreadyProcessed(id) == id \in processedImages
AlreadyInQueue(q, id) == \E i \in 1..Len(q) : q[i].imageId = id

\* push without the sort
Enqueue_NoSort(q, it) == Append(q, it)

\* push + sort of processImage
Enqueue(q, it) == SortByPosition(Append(q, it))

\* processImage, the branch for a URL that is not available yet: a one-shot
\* attribute watcher guarded by dataset.urlObserverAdded
watchUrl(s, e) ==
  IF e \in s.urlObserverAdded THEN s
  ELSE [s EXCEPT !.urlObserverAdded = @ \cup {e}, !.urlWatchers[e] = @ + 1]

\* meetsImageCriteria, the deferral test: width === 0 || height === 0 || ...
DimensionsResolved(e) == elDims[e] = "ok"

\* meetsImageCriteria without the dataset.loadListenerAdded guard
deferUntilLoad_NoMarker(s, e) ==
  [s EXCEPT !.loadListenerAdded = @ \cup {e}, !.loadListeners[e] = @ + 1]

\* meetsImageCriteria, the deferral branch: a once-only load listener guarded
\* by dataset.loadListenerAdded
deferUntilLoad(s, e) ==
  IF e \in s.loadListenerAdded THEN s
  ELSE [s EXCEPT !.loadListenerAdded = @ \cup {e}, !.loadListeners[e] = @ + 1]

processImage(s, e) ==
  IF ~s.isEnabled THEN s
  ELSE IF ~isReadingPage(s.inDom) THEN s
  ELSE IF getImageUrl(e) = NoUrl THEN watchUrl(s, e)
  ELSE IF isAnimatedImage(getImageUrl(e)) THEN s
  ELSE IF ~isMangaImage(e) THEN s
  ELSE IF ~DimensionsResolved(e) THEN deferUntilLoad(s, e)
  ELSE IF AlreadyProcessed(getImageId(e)) THEN s
  ELSE IF AlreadyInQueue(s.imageQueue, getImageId(e)) THEN s
  ELSE processQueue(
         [updatePageStatsQueue(
            [s EXCEPT !.totalDetected = @ + 1, !.created = @ + 1,
                      !.imageQueue = Enqueue(@, QueueItem(e))])
            EXCEPT !.deco[e] = addLoadingIndicator(@)])

\* detectAndProcessImages: every <img> of the document, by vertical position
RECURSIVE ProcessAll(_, _)
ProcessAll(s, es) ==
  IF es = <<>> THEN s ELSE ProcessAll(processImage(s, Head(es)), Tail(es))

RECURSIVE SortElems(_)
SortElems(S) ==
  IF S = {} THEN <<>>
  ELSE LET e == CHOOSE x \in S : \A y \in S :
                  \/ getImageVerticalPosition(x) < getImageVerticalPosition(y)
                  \/ getImageVerticalPosition(x) = getImageVerticalPosition(y) /\ x <= y
       IN  <<e>> \o SortElems(S \ {e})

detectAndProcessImages(s) == ProcessAll(s, SortElems(s.inDom))

\* startImageDetection: the scan; the caller counts the body observer it
\* registers in bodyObservers
startImageDetection(s) == detectAndProcessImages(s)

SetPipe(s) ==
  /\ isEnabled' = s.isEnabled
  /\ inDom' = s.inDom
  /\ imageQueue' = s.imageQueue
  /\ isProcessingQueue' = s.isProcessingQueue
  /\ workers' = s.workers
  /\ totalDetected' = s.totalDetected
  /\ deco' = s.deco
  /\ urlObserverAdded' = s.urlObserverAdded
  /\ urlWatchers' = s.urlWatchers
  /\ loadListenerAdded' = s.loadListenerAdded
  /\ loadListeners' = s.loadListeners
  /\ pageStatsQueue' = s.pageStatsQueue
  /\ created' = s.created

\* ------------------------------------------------------------ the extraction
Builds == {"part_000", "content.js"}

\* no extractImageAsBase64 call has been made by build b for image URL u
\*   pc:        the await the call is suspended at ("done": settled)
\*   attempted: the tiers tried so far, in order, each with its outcome
\*   result:    "none", the tier whose data the promise resolved with, or "rejected"
\*   error:     the kind of the rejection value
ExtIdle(b, u) ==
  [build |-> b, url |-> u, pc |-> "idle", attempted |-> <<>>,
   result |-> "none", error |-> "none"]

\* SITE_HANDLERS[...].needsBackgroundFetch of the selected handler
needsBackgroundFetch == currentSiteHandler \in {"AsuraScans", "Generic"}

\* a tier starts: the call is suspended until the tier's outcome arrives
Try(x, tier) ==
  [x EXCEPT !.pc = tier,
            !.attempted = Append(@, [tier |-> tier, outcome |-> "pending"])]

\* the outcome of the tier in progress
Outcome(x, out) == [x EXCEPT !.attempted[Len(x.attempted)].outcome = out]

CurrentTier(x) == x.attempted[Len(x.attempted)].tier

Resolve(x) ==
  [Outcome(x, "ok") EXCEPT !.pc = "done", !.result = CurrentTier(x)]

Reject(x, out, err) ==
  [Outcome(x, out) EXCEPT !.pc = "done", !.result = "rejected", !.error = err]

\* fetchImageWithFallback going to the background fetch whatever the handler says
fetchImageWithFallback_NoDirect(x) == Try(x, "background")

\* fetchImageWithFallback up to its first await
fetchImageWithFallback(x) ==
  IF needsBackgroundFetch THEN Try(x, "background") ELSE Try(x, "direct")

\* extractImageAsBase64 up to its first await: only the build of part_000
\* tests needsBackgroundFetch before the canvas attempt
extractImageAsBase64(b, u) ==
  IF b = "part_000" /\ needsBackgroundFetch
    THEN fetchImageWithFallback(ExtIdle(b, u))
    ELSE Try(ExtIdle(b, u), "canvas")

\* fetchImageViaBackground after `await chrome.runtime.sendMessage`:
\*   "ok":         a response with success = true
\*   "noResponse": the promise resolved with undefined
\*   "failure":    a response with success = false
\*   "rejected":   sendMessage rejected
\* The build of content.js reads response.success without testing response.
fetchImageViaBackground(x, out) ==
  CASE out = "ok"         -> Resolve(x)
    [] out = "noResponse" -> Reject(x, out, IF x.build = "part_000" THEN "NoResponse"
                                                                     ELSE "TypeError")
    [] out = "failure"    -> Reject(x, out, "UpstreamFailed")
    [] out = "rejected"   -> Reject(x, out, "SendRejected")

\* ------------------------------------------------------- the background script
NumTabs == 2
Tabs == 1..NumTabs
MaxTimers == 2
MAX_RETRIES == 3

\* processingQueue.get(imageId) of an id the map does not hold
NoEntry == [status |-> "none", progress |-> 0]

\* updateProgress: processingQueue.set(imageId, {status, progress, ...})
updateProgress(pq, imageId, status, progress) ==
  [pq EXCEPT ![imageId] = [status |-> status, progress |-> progress]]

\* a tab with no UPSCALE_IMAGE request in flight; once a request is answered
\* its record keeps what happened to it until the tab sends the next one
IdleRequest ==
  [pc |-> "idle", imageId |-> 1, hasImageData |-> TRUE, attempt |-> 0,
   flagAtReceipt |-> FALSE, health |-> "none", posts |-> 0, response |-> "none"]

\* the record of a request once it is answered: what is kept is its image id,
\* whether the flag was set when it arrived, its health check, its POSTs and
\* the answer
Answered(r, response) ==
  [IdleRequest EXCEPT !.imageId = r.imageId, !.flagAtReceipt = r.flagAtReceipt,
                      !.health = r.health, !.posts = r.posts, !.response = response]

\* the background script after it was loaded
BgInit ==
  /\ serverAvailable = FALSE
  /\ processingQueue = [id \in Urls |-> NoEntry]
  /\ requests = [tab \in Tabs |-> IdleRequest]
  /\ deleteTimers = [id \in Urls |-> 0]

\* handleUpscaleRequest: if (!serverAvailable) await checkServerHealth()
NeedsHealthCheck_Never(available) == FALSE
NeedsHealthCheck(available) == ~available

\* the try block of handleUpscaleRequest up to its first await
StartedQueue(pq, imageId, hasImageData) ==
  updateProgress(updateProgress(pq, imageId, "queued", 0), imageId,
                 IF hasImageData THEN "converting" ELSE "fetching", 20)

StartedPc(hasImageData) == IF hasImageData THEN "dataUrlToBlob" ELSE "fetchImageWithRetry"

\* the attempt fetchImageWithRetry starts with; dataUrlToBlob has no attempts
StartedAttempt(hasImageData) == IF hasImageData THEN 0 ELSE 1

\* the retry loops: if (i === retries - 1), with attempts counted from 1
LastAttempt_Any(attempt) == TRUE
LastAttempt(attempt) == attempt = MAX_RETRIES

\* upscaleImage, one attempt up to the POST: the entry becomes 'processing'
\* if the map still holds one
upscaleAttempt(pq, imageId) ==
  IF pq[imageId] # NoEntry THEN updateProgress(pq, imageId, "processing", 60) ELSE pq

\* requests in flight for an image id
RequestsFor(imageId) == {tab \in Tabs : requests[tab].pc # "idle" /\ requests[tab].imageId = imageId}

\* ------------------------------------------------------- session statistics
\* pageStats.upscaleTimes.push(upscaleTime); the clock of the model stands
\* still while an item is processed, so the time pushed is 0
pushUpscaleTime_Skip(times) == times
pushUpscaleTime(times) == Append(times, 0)

NumPages == 2
Pages == 1..NumPages
MaxUpscaled == 2
MaxDrains == 2

\* no page has upscaled anything, nothing is stored
StatsIdle ==
  /\ sessionStats = 0
  /\ savers = [p \in Pages |-> [totalUpscaled |-> 0, pc |-> "idle", result |-> 0, drains |-> 0]]

RECURSIVE SumUpscaled(_)
SumUpscaled(ps) ==
  IF ps = {} THEN 0
  ELSE LET p == CHOOSE q \in ps : TRUE
       IN  savers[p].totalUpscaled + SumUpscaled(ps \ {p})

\* ------------------------------------------------------------------ the popup
\* a fresh install: nothing stored under 'enabled', the popup closed
PopupIdle ==
  /\ storedEnabled = "undefined"
  /\ popup = [pc |-> "closed", shown |-> FALSE]
  /\ toggleMessages = <<>>

MaxMessages == 2

\* ------------------------------------------------------------ size criteria
\* CONFIG of the content script; maxImageWidth differs between the two builds
minImageWidth == 200
minImageHeight == 200
maxImageHeight == 20000
maxImageWidth(b) == IF b = "part_000" THEN 3000 ELSE 2000

\* the values of naturalWidth, naturalHeight and of the width and height
\* attributes (<<0, 0>>: absent) that the calls are tried with
Widths == {0, 150, 199, 200, 2000, 2001, 3000, 3001}
Heights == {0, 199, 200, 300, 20000, 20001}
AttrSizes == {<<0, 0>>, <<150, 300>>, <<800, 1200>>}

\* an <img> as meetsImageCriteria reads it, before the call (pc = "idle")
CritInputs ==
  [build : Builds, naturalWidth : Widths, naturalHeight : Heights,
   complete : BOOLEAN, isPlaceholderLoaded : BOOLEAN, attrSize : AttrSizes,
   loadListenerAdded : BOOLEAN, pc : {"idle"}, result : {FALSE},
   registered : {FALSE}]

CritIdle ==
  [build |-> "part_000", naturalWidth |-> 0, naturalHeight |-> 0,
   complete |-> FALSE, isPlaceholderLoaded |-> FALSE, attrSize |-> <<0, 0>>,
   loadListenerAdded |-> FALSE, pc |-> "idle", result |-> FALSE,
   registered |-> FALSE]

\* meetsImageCriteria: result is the value returned, registered whether the
\* call added a load listener
meetsImageCriteria(c) ==
  LET useAttrs == c.isPlaceholderLoaded /\ c.attrSize[1] > 0 /\ c.attrSize[2] > 0
      width    == IF useAttrs THEN c.attrSize[1] ELSE c.naturalWidth
      height   == IF useAttrs THEN c.attrSize[2] ELSE c.naturalHeight
  IN  IF width = 0 \/ height = 0 \/ (~c.complete /\ ~c.isPlaceholderLoaded)
        THEN [c EXCEPT !.pc = "done", !.result = FALSE,
                       !.registered = ~c.loadListenerAdded,
                       !.loadListenerAdded = TRUE]
      ELSE IF width < minImageWidth \/ height < minImageHeight
        THEN [c EXCEPT !.pc = "done", !.result = FALSE]
      ELSE IF width > maxImageWidth(c.build) \/ height > maxImageHeight
        THEN [c EXCEPT !.pc = "done", !.result = FALSE]
      ELSE [c EXCEPT !.pc = "done", !.result = TRUE]

\* ----------------------------------------------------------------- the page
\* the script's state when init() has returned
ScriptInit ==
  /\ currentSiteHandler \in Handlers
  /\ initPending = TRUE
  /\ isEnabled = FALSE                      \* CONFIG.enabledByDefault
  /\ bodyObservers = 0
  /\ lastCommand = "none"
  /\ inDom = {}
  /\ deco = [e \in Elems |-> NoDeco]
  /\ processedImages = {}
  /\ imageQueue = <<>>
  /\ isProcessingQueue = FALSE
  /\ workers = <<>>
  /\ totalDetected = 0
  /\ created = 0
  /\ upscaleTimes = <<>>
  /\ totalUpscaled = 0
  /\ now = PageLoadTime
  /\ lastNotificationTime = 0
  /\ crashed = FALSE
  /\ oversizeSkipped = {}
  /\ contextInvalidated = FALSE
  /\ urlObserverAdded = {}
  /\ urlWatchers = [e \in Elems |-> 0]
  /\ pendingRecords = [e \in Elems |-> 0]
  /\ loadListenerAdded = {}
  /\ loadListeners = [e \in Elems |-> 0]
  /\ pageStatsQueue = <<>>
  /\ shownAt = <<>>

\* a page whose images carry their URL and are loaded when they are inserted
Init ==
  /\ ScriptInit
  /\ elSrc = [e \in Elems |-> PageUrl(e)]
  /\ elDataUrl = [e \in Elems |-> IF currentSiteHandler = "Webtoon" THEN elSrc[e] ELSE NoUrl]
  /\ elDims = [e \in Elems |-> "ok"]
  /\ ext = ExtIdle("part_000", 1)
  /\ crit = CritIdle
  /\ BgInit
  /\ StatsIdle
  /\ PopupIdle

\* the microtask checkpoint: MutationObserver callbacks run before the next task
MicrotasksDone == \A e \in Elems : pendingRecords[e] = 0

\* what no detection entry point touches
CommandFrame ==
  UNCHANGED <<currentSiteHandler, elSrc, elDataUrl, processedImages,
              totalUpscaled, now, lastNotificationTime, shownAt, crashed,
              oversizeSkipped, contextInvalidated, elDims, pendingRecords, ext, crit, BgVars, StatsVars, PopupVars, upscaleTimes>>

\* what no detection entry point but the delivery of a popup command touches
DetectionFrame == CommandFrame /\ UNCHANGED toggleMessages

\* init(): the chrome.storage.local.get callback
StorageLoaded(stored) ==
  /\ MicrotasksDone
  /\ isSupportedSite
  /\ initPending
  /\ initPending' = FALSE
  /\ LET en == IF stored = "undefined" THEN FALSE ELSE stored = "true"
         s  == [Pipe EXCEPT !.isEnabled = en]
     IN  IF en /\ isReadingPage(inDom)
           THEN SetPipe(startImageDetection(s)) /\ bodyObservers' = bodyObservers + 1
           ELSE SetPipe(s) /\ bodyObservers' = bodyObservers
  /\ UNCHANGED lastCommand
  /\ DetectionFrame

\* init(): the onMessage listener, TOGGLE_EXTENSION
\* On a site without a registered domain init() has returned before
\* addListener: the popup's command reaches no receiver.
ToggleExtensionStep(enabled) ==
  /\ MicrotasksDone
  /\ totalDetected < MaxDetected
  /\ enabled => bodyObservers < MaxObservers
  /\ lastCommand' = IF enabled THEN "enable" ELSE "disable"
  /\ LET s == [Pipe EXCEPT !.isEnabled = enabled]
     IN  IF ~isSupportedSite
           THEN SetPipe(Pipe) /\ bodyObservers' = bodyObservers
         ELSE IF enabled
           THEN SetPipe(startImageDetection(s)) /\ bodyObservers' = bodyObservers + 1
           ELSE SetPipe(s) /\ bodyObservers' = bodyObservers
  /\ UNCHANGED initPending
  /\ CommandFrame

\* a TOGGLE_EXTENSION message of any content arrives
ToggleExtension(enabled) == ToggleExtensionStep(enabled) /\ UNCHANGED toggleMessages

\* the callbacks of the registered body observers: each runs processImage on
\* the inserted <img>
RECURSIVE ObserverCallbacks(_, _, _)
ObserverCallbacks(s, e, k) ==
  IF k = 0 THEN s ELSE ObserverCallbacks(processImage(s, e), e, k - 1)

\* the page inserts (or re-inserts) an <img>
NodeAdded(e) ==
  /\ MicrotasksDone
  /\ totalDetected < MaxDetected
  /\ LET s == [Pipe EXCEPT !.inDom = @ \cup {e}]
     IN  SetPipe(ObserverCallbacks(s, e, bodyObservers))
  /\ UNCHANGED <<initPending, bodyObservers, lastCommand>>
  /\ DetectionFrame

\* ------------------------------------------------------- lazy-loaded images
\* what the callbacks of the per-element watchers and listeners leave alone
LazyFrame ==
  UNCHANGED <<currentSiteHandler, initPending, bodyObservers, lastCommand,
              elSrc, elDataUrl, elDims, processedImages, totalUpscaled, now,
              lastNotificationTime, shownAt, crashed, oversizeSkipped,
              contextInvalidated, ext, crit, BgVars, StatsVars, PopupVars, upscaleTimes, toggleMessages>>

\* the page's script changes the URL-bearing attributes of an <img> to u, in
\* n attribute mutations of one task (src alone, or src and data-url)
SetAttributes(e, u, n) ==
  /\ MicrotasksDone
  /\ isSupportedSite
  /\ totalDetected < MaxDetected
  /\ urlWatchers[e] < MaxWatchers
  /\ elSrc' = [elSrc EXCEPT ![e] = u]
  /\ elDataUrl' = IF currentSiteHandler = "Webtoon" /\ n > 1
                    THEN [elDataUrl EXCEPT ![e] = u]
                    ELSE elDataUrl
  /\ pendingRecords' =
       [pendingRecords EXCEPT ![e] = IF urlWatchers[e] > 0 THEN n ELSE 0]
  /\ UNCHANGED <<currentSiteHandler, initPending, isEnabled, bodyObservers,
                 lastCommand, inDom, deco, processedImages, imageQueue,
                 isProcessingQueue, workers, totalDetected, created, totalUpscaled, now,
                 lastNotificationTime, shownAt, crashed, oversizeSkipped,
                 contextInvalidated, elDims, urlObserverAdded, urlWatchers,
                 loadListenerAdded, loadListeners, ext, pageStatsQueue,
                 crit, BgVars, StatsVars, PopupVars, upscaleTimes, toggleMessages>>

\* the callback of one URL watcher over a batch of n records:
\* mutations.forEach(... observer.disconnect(); delete img.dataset.urlObserverAdded;
\* processImage(img) ...); the observer itself is disconnected by the caller
RECURSIVE WatcherCallback(_, _, _)
WatcherCallback(s, e, n) ==
  IF n = 0 THEN s
  ELSE WatcherCallback(
         processImage([s EXCEPT !.urlObserverAdded = @ \ {e}], e), e, n - 1)

\* the batch is delivered to each of the w watchers that observed the element
\* when its attributes changed
RECURSIVE DeliverRecords(_, _, _, _)
DeliverRecords(s, e, w, n) ==
  IF w = 0 THEN s
  ELSE DeliverRecords(
         WatcherCallback([s EXCEPT !.urlWatchers[e] = @ - 1], e, n), e, w - 1, n)

\* the microtask that runs the URL watchers of element e
WatcherFires(e) ==
  /\ pendingRecords[e] > 0
  /\ SetPipe(DeliverRecords(Pipe, e, urlWatchers[e], pendingRecords[e]))
  /\ pendingRecords' = [pendingRecords EXCEPT ![e] = 0]
  /\ LazyFrame

\* the image's dimensions become known (d = "ok") or are reset by a new load
DimensionsChange(e, d) ==
  /\ MicrotasksDone
  /\ isSupportedSite
  /\ elDims[e] # d
  /\ elDims' = [elDims EXCEPT ![e] = d]
  /\ UNCHANGED <<currentSiteHandler, initPending, isEnabled, bodyObservers,
                 lastCommand, inDom, elSrc, elDataUrl, deco, processedImages,
                 imageQueue, isProcessingQueue, workers, totalDetected, created,
                 totalUpscaled, now, lastNotificationTime, shownAt, crashed,
                 oversizeSkipped, contextInvalidated, urlObserverAdded,
                 urlWatchers, pendingRecords, loadListenerAdded, loadListeners,
                 ext, pageStatsQueue, crit, BgVars, StatsVars, PopupVars, upscaleTimes, toggleMessages>>

\* the k load listeners of meetsImageCriteria that were pending:
\* delete img.dataset.loadListenerAdded; processImage(img)
RECURSIVE LoadCallbacks(_, _, _)
LoadCallbacks(s, e, k) ==
  IF k = 0 THEN s
  ELSE LoadCallbacks(
         processImage([s EXCEPT !.loadListenerAdded = @ \ {e}], e), e, k - 1)

\* a 'load' event is dispatched on an <img>: its once-only listeners are
\* removed and run
LoadEvent(e) ==
  /\ MicrotasksDone
  /\ isSupportedSite
  /\ loadListeners[e] > 0
  /\ SetPipe(LoadCallbacks([Pipe EXCEPT !.loadListeners[e] = 0], e, loadListeners[e]))
  /\ UNCHANGED pendingRecords
  /\ LazyFrame

\* ---------------------------------------------------------------- the worker
RemoveAt(q, i) == SubSeq(q, 1, i - 1) \o SubSeq(q, i + 1, Len(q))

\* `while (imageQueue.length > 0)` evaluated by loop i: the next shift(), or
\* the end of processQueue
LoopNext(i) ==
  IF imageQueue # <<>>
    THEN /\ workers' = [workers EXCEPT ![i] = [pc |-> "extract", item |-> Head(imageQueue)]]
         /\ imageQueue' = Tail(imageQueue)
         /\ UNCHANGED isProcessingQueue
    ELSE /\ workers' = RemoveAt(workers, i)
         /\ imageQueue' = imageQueue
         /\ isProcessingQueue' = FALSE

\* a notification is displayed exactly when showNotification passes its
\* cool-down test and sets lastNotificationTime
RecordShown ==
  shownAt' = IF lastNotificationTime' # lastNotificationTime
               THEN Append(shownAt, now) ELSE shownAt

\* the catch block of processQueue, by the kind of value that was thrown
\*   "invalidated": message contains 'Extension context invalidated'
\*   "noMessage":   a value without a message property; error.message.includes throws
\*   "exception":   any other Error: a notification, then the inter-item delay
CatchBlock(i, kind) ==
  LET it == workers[i].item IN
  /\ deco' = [deco EXCEPT ![it.img] = removeLoadingIndicator(@)]
  /\ CASE kind = "invalidated" ->
            /\ isProcessingQueue' = FALSE
            /\ workers' = RemoveAt(workers, i)
            /\ contextInvalidated' = TRUE
            /\ UNCHANGED <<lastNotificationTime, crashed>>
       [] kind = "noMessage" ->
            /\ workers' = RemoveAt(workers, i)
            /\ crashed' = TRUE
            /\ UNCHANGED <<isProcessingQueue, contextInvalidated, lastNotificationTime>>
       [] OTHER ->
            /\ lastNotificationTime' = showNotification(lastNotificationTime, now)
            /\ workers' = [workers EXCEPT ![i].pc = "delay"]
            /\ UNCHANGED <<isProcessingQueue, crashed, contextInvalidated>>
  \* updatePageStatsQueue() behind the try block is reached by the last branch alone
  /\ pageStatsQueue' = IF kind \in {"invalidated", "noMessage"}
                         THEN pageStatsQueue ELSE QueueSnapshot(imageQueue)

\* an oversize branch that drops the item without a notification
OversizeNotice_Silent(last, t) == last

\* the notification of the oversize branch ('Image Too Large')
OversizeNotice(last, t) == showNotification(last, t)

ExtractOutcomes == {"ok", "oversize", "exception", "noMessage", "invalidated"}

\* `await extractImageAsBase64(img, imageUrl)` settles
ExtractDone(i, out) ==
  /\ MicrotasksDone
  /\ i \in 1..Len(workers)
  /\ workers[i].pc = "extract"
  /\ LET it == workers[i].item IN
     CASE out = "ok" ->
            \* size within the ceiling: UPSCALE_IMAGE is sent
            /\ workers' = [workers EXCEPT ![i].pc = "upscale"]
            /\ UNCHANGED <<deco, isProcessingQueue, crashed, contextInvalidated,
                           lastNotificationTime, imageQueue, oversizeSkipped,
                           pageStatsQueue>>
       [] out = "oversize" ->
            \* imageSizeMB > 20: notify, clear the decoration, `continue`
            /\ lastNotificationTime' = OversizeNotice(lastNotificationTime, now)
            /\ deco' = [deco EXCEPT ![it.img] = removeLoadingIndicator(@)]
            /\ oversizeSkipped' = oversizeSkipped \cup {it.imageId}
            /\ LoopNext(i)
            /\ UNCHANGED <<crashed, contextInvalidated, pageStatsQueue>>
       [] OTHER ->
            /\ CatchBlock(i, out)
            /\ UNCHANGED <<imageQueue, oversizeSkipped>>
  /\ UNCHANGED <<LazyVars, ext, crit, BgVars, StatsVars, PopupVars, upscaleTimes, toggleMessages, currentSiteHandler, initPending, isEnabled, bodyObservers,
                 lastCommand, inDom,
                 elSrc, elDataUrl, processedImages, totalDetected, created,
                 totalUpscaled, now>>
  /\ RecordShown

\* "failed": success = false without a notification; "serverDown", "timeout":
\* success = false with one; "exception": no response, a rejected send or
\* chrome.runtime.lastError
UpscaleOutcomes ==
  {"success", "failed", "serverDown", "timeout", "exception", "invalidated"}

\* `await chrome.runtime.sendMessage({type: 'UPSCALE_IMAGE', ...})` settles
UpscaleDone(i, out) ==
  /\ MicrotasksDone
  /\ i \in 1..Len(workers)
  /\ workers[i].pc = "upscale"
  /\ LET it == workers[i].item IN
     CASE out = "success" ->
            /\ processedImages' = processedImages \cup {it.imageId}
            /\ elSrc' = [elSrc EXCEPT ![it.img] = DataUrlOf(it.actualUrl)]
            /\ deco' = [deco EXCEPT ![it.img] = removeLoadingIndicator(replaceImageStyle(@))]
            /\ totalUpscaled' = totalUpscaled + 1
            /\ upscaleTimes' = pushUpscaleTime(upscaleTimes)
            /\ workers' = [workers EXCEPT ![i].pc = "delay"]
            /\ pageStatsQueue' = QueueSnapshot(imageQueue)
            /\ UNCHANGED <<isProcessingQueue, crashed, contextInvalidated,
                           lastNotificationTime>>
       [] out \in {"failed", "serverDown", "timeout"} ->
            \* response.success is false
            /\ deco' = [deco EXCEPT ![it.img] = removeLoadingIndicator(@)]
            /\ lastNotificationTime' =
                 IF out = "failed" THEN lastNotificationTime
                 ELSE showNotification(lastNotificationTime, now)
            /\ workers' = [workers EXCEPT ![i].pc = "delay"]
            /\ pageStatsQueue' = QueueSnapshot(imageQueue)
            /\ UNCHANGED <<isProcessingQueue, crashed, contextInvalidated,
                           processedImages, elSrc, totalUpscaled, upscaleTimes>>
       [] OTHER ->
            /\ CatchBlock(i, out)
            /\ UNCHANGED <<processedImages, elSrc, totalUpscaled, upscaleTimes>>
  /\ UNCHANGED <<LazyVars, ext, crit, BgVars, StatsVars, PopupVars, toggleMessages, currentSiteHandler, initPending, isEnabled, bodyObservers,
                 lastCommand, inDom,
                 elDataUrl, totalDetected, created, imageQueue, oversizeSkipped, now>>
  /\ RecordShown

\* the 100 ms inter-item delay elapses
DelayDone(i) ==
  /\ MicrotasksDone
  /\ i \in 1..Len(workers)
  /\ workers[i].pc = "delay"
  /\ LoopNext(i)
  /\ UNCHANGED <<LazyVars, ext, crit, BgVars, StatsVars, PopupVars, upscaleTimes, toggleMessages, currentSiteHandler, initPending, isEnabled, bodyObservers,
                 lastCommand, inDom,
                 elSrc, elDataUrl, deco, processedImages, totalDetected, created,
                 totalUpscaled, now, lastNotificationTime, crashed,
                 oversizeSkipped, contextInvalidated, pageStatsQueue>>
  /\ RecordShown

MaxLoops == NumElems + MaxDetected

WorkerStep ==
  \E i \in 1..MaxLoops :
    \/ \E out \in ExtractOutcomes : ExtractDone(i, out)
    \/ \E out \in UpscaleOutcomes : UpscaleDone(i, out)
    \/ DelayDone(i)

\* time passes while the page's tasks are suspended
Tick ==
  /\ MicrotasksDone
  /\ now + TickStep <= MaxTime
  /\ now' = now + TickStep
  /\ UNCHANGED <<LazyVars, ext, crit, BgVars, StatsVars, PopupVars, upscaleTimes, toggleMessages, currentSiteHandler, initPending, isEnabled, bodyObservers,
                 lastCommand, inDom,
                 elSrc, elDataUrl, deco, processedImages, imageQueue,
                 isProcessingQueue, workers, totalDetected, created, totalUpscaled,
                 lastNotificationTime, shownAt, crashed, oversizeSkipped, contextInvalidated,
                 pageStatsQueue>>

Next ==
  \/ \E stored \in {"undefined", "true", "false"} : StorageLoaded(stored)
  \/ \E enabled \in BOOLEAN : ToggleExtension(enabled)
  \/ \E e \in Elems : NodeAdded(e)
  \/ WorkerStep

\* Date.now() is read by showNotification alone and lastNotificationTime is
\* written by it alone: nothing else of the script depends on the clock, which
\* stands still here and advances in ClockSpec
Spec == Init /\ [][Next]_vars

\* the pipeline under an advancing clock, the popup left alone
ClockNext ==
  \/ \E stored \in {"undefined", "true", "false"} : StorageLoaded(stored)
  \/ \E e \in Elems : NodeAdded(e)
  \/ WorkerStep
  \/ Tick

ClockSpec == Init /\ [][ClockNext]_vars

\* every awaited step of a running loop eventually settles
FairSpec == Spec /\ WF_vars(WorkerStep)

\* a page whose images are lazy-loaded: they start without a URL and without
\* dimensions, and the page's script fills them in
LazyInit ==
  /\ ScriptInit
  /\ elSrc = [e \in Elems |-> NoUrl]
  /\ elDataUrl = [e \in Elems |-> NoUrl]
  /\ elDims = [e \in Elems |-> "unresolved"]
  /\ ext = ExtIdle("part_000", 1)
  /\ crit = CritIdle
  /\ BgInit
  /\ StatsIdle
  /\ PopupIdle

LazyNext ==
  \/ \E stored \in {"undefined", "true", "false"} : StorageLoaded(stored)
  \/ \E e \in Elems : NodeAdded(e)
  \/ \E e \in Elems, n \in 1..MaxBatch : \E u \in {NoUrl, PageUrl(e)} :
       SetAttributes(e, u, n)
  \/ \E e \in Elems : WatcherFires(e)
  \/ \E e \in Elems, d \in {"unresolved", "ok"} : DimensionsChange(e, d)
  \/ \E e \in Elems : LoadEvent(e)

\* the deferral of candidates up to their insertion into the queue: the awaits
\* of processQueue stay pending
LazySpec == LazyInit /\ [][LazyNext]_vars

\* a page on which any image may be animated and may be loaded or not
FilterInit ==
  /\ ScriptInit
  /\ elSrc \in {f \in [Elems -> Urls \cup AnimatedUrls] :
                 \A e \in Elems : f[e] \in {PageUrl(e)} \cup AnimatedUrls}
  /\ elDataUrl = [e \in Elems |-> IF currentSiteHandler = "Webtoon" THEN elSrc[e] ELSE NoUrl]
  /\ elDims \in [Elems -> {"ok", "unresolved"}]
  /\ ext = ExtIdle("part_000", 1)
  /\ crit = CritIdle
  /\ BgInit
  /\ StatsIdle
  /\ PopupIdle

FilterNext ==
  \/ \E stored \in {"undefined", "true", "false"} : StorageLoaded(stored)
  \/ \E enabled \in BOOLEAN : ToggleExtension(enabled)
  \/ \E e \in Elems : NodeAdded(e)
  \/ \E e \in Elems, d \in {"unresolved", "ok"} : DimensionsChange(e, d)
  \/ \E e \in Elems : LoadEvent(e)

\* the filters of processImage up to the insertion into the queue: the awaits
\* of processQueue stay pending
FilterSpec == FilterInit /\ [][FilterNext]_vars

\* ------------------------------------------------------------ extraction tiers
ExtractFrame ==
  UNCHANGED <<currentSiteHandler, initPending, isEnabled, bodyObservers, lastCommand,
              inDom, elSrc, elDataUrl, deco, processedImages, imageQueue,
              isProcessingQueue, workers, totalDetected, created, totalUpscaled, now,
              lastNotificationTime, shownAt, crashed, oversizeSkipped, contextInvalidated,
              LazyVars, pageStatsQueue, crit, BgVars, StatsVars, PopupVars, upscaleTimes, toggleMessages>>

\* `await extractImageAsBase64(img, actualUrl)` of processQueue
ExtractStart(u) ==
  /\ ext.pc \in {"idle", "done"}
  /\ isSupportedSite
  /\ ext' = extractImageAsBase64(ext.build, u)
  /\ ExtractFrame

\* tempImg.onload (the canvas is read, or it throws) or tempImg.onerror
CanvasDone(out) ==
  /\ ext.pc = "canvas"
  /\ ext' = IF out = "ok" THEN Resolve(ext)
                          ELSE fetchImageWithFallback(Outcome(ext, out))
  /\ ExtractFrame

\* fetchImageDirect after `await fetch(...)`: the blob is read next, or the
\* error is caught by fetchImageWithFallback
DirectFetchDone(out) ==
  /\ ext.pc = "direct"
  /\ ext' = IF out = "ok" THEN [ext EXCEPT !.pc = "directRead"]
                          ELSE Try(Outcome(ext, out), "background")
  /\ ExtractFrame

\* reader.onloadend or reader.onerror of fetchImageDirect
DirectReadDone(out) ==
  /\ ext.pc = "directRead"
  /\ ext' = IF out = "ok" THEN Resolve(ext)
                          ELSE Try(Outcome(ext, out), "background")
  /\ ExtractFrame

BackgroundDone(out) ==
  /\ ext.pc = "background"
  /\ ext' = fetchImageViaBackground(ext, out)
  /\ ExtractFrame

\* a supported site, either build of the content script, no call made yet
ExtractInit ==
  /\ ScriptInit
  /\ isSupportedSite
  /\ elSrc = [e \in Elems |-> PageUrl(e)]
  /\ elDataUrl = [e \in Elems |-> IF currentSiteHandler = "Webtoon" THEN elSrc[e] ELSE NoUrl]
  /\ elDims = [e \in Elems |-> "ok"]
  /\ \E b \in Builds, u \in Urls : ext = ExtIdle(b, u)
  /\ crit = CritIdle
  /\ BgInit
  /\ StatsIdle
  /\ PopupIdle

ExtractNext ==
  \/ \E u \in Urls : ExtractStart(u)
  \/ \E out \in {"ok", "tainted", "loadError"} : CanvasDone(out)
  \/ \E out \in {"ok", "networkError", "httpError"} : DirectFetchDone(out)
  \/ \E out \in {"ok", "readError"} : DirectReadDone(out)
  \/ \E out \in {"ok", "noResponse", "failure", "rejected"} : BackgroundDone(out)

\* the extractions by themselves, one after the other as processQueue makes them
ExtractSpec == ExtractInit /\ [][ExtractNext]_vars

\* the steps that are certain to happen however the endpoint behaves: the fetch
\* of the background script is aborted by fetchWithTimeout after FETCH_TIMEOUT,
\* and the FileReader works on a blob already received. The load of the
\* crossOrigin Image and the fetch of fetchImageDirect have no timeout.
FairExtractSpec ==
  /\ ExtractSpec
  /\ WF_vars(\E out \in {"ok", "readError"} : DirectReadDone(out))
  /\ WF_vars(\E out \in {"ok", "noResponse", "failure", "rejected"} : BackgroundDone(out))

\* ------------------------------------------------------- the size criteria
\* processImage calls meetsImageCriteria(img)
CriteriaCall ==
  /\ crit.pc = "idle"
  /\ crit' = meetsImageCriteria(crit)
  /\ UNCHANGED <<currentSiteHandler, initPending, isEnabled, bodyObservers, lastCommand,
                 inDom, elSrc, elDataUrl, deco, processedImages, imageQueue,
                 isProcessingQueue, workers, totalDetected, totalUpscaled, now,
                 lastNotificationTime, shownAt, crashed, oversizeSkipped,
                 contextInvalidated, LazyVars, pageStatsQueue, ext, BgVars, StatsVars,
                 PopupVars, upscaleTimes, created, toggleMessages>>

\* any image, either build
CriteriaInit ==
  /\ ScriptInit
  /\ isSupportedSite
  /\ elSrc = [e \in Elems |-> PageUrl(e)]
  /\ elDataUrl = [e \in Elems |-> IF currentSiteHandler = "Webtoon" THEN elSrc[e] ELSE NoUrl]
  /\ elDims = [e \in Elems |-> "ok"]
  /\ ext = ExtIdle("part_000", 1)
  /\ crit \in CritInputs
  /\ BgInit
  /\ StatsIdle
  /\ PopupIdle

CriteriaNext == CriteriaCall

CriteriaSpec == CriteriaInit /\ [][CriteriaNext]_vars

\* ------------------------------------------------------ the session statistics
StatsFrame ==
  UNCHANGED <<currentSiteHandler, initPending, isEnabled, bodyObservers, lastCommand,
              inDom, elSrc, elDataUrl, deco, processedImages, imageQueue,
              isProcessingQueue, workers, totalDetected, totalUpscaled, now,
              lastNotificationTime, shownAt, crashed, oversizeSkipped,
              contextInvalidated, LazyVars, pageStatsQueue, ext, crit, BgVars,
              PopupVars, upscaleTimes, created, toggleMessages>>

\* processQueue of page p: an item succeeds, pageStats.totalUpscaled++
PageUpscales(p) ==
  /\ savers[p].totalUpscaled < MaxUpscaled
  /\ savers' = [savers EXCEPT ![p].totalUpscaled = @ + 1]
  /\ UNCHANGED sessionStats
  /\ StatsFrame

\* the queue of page p drains: saveSessionStatistics() returns at once when
\* nothing was upscaled, otherwise it asks the storage for sessionStats
QueueDrains(p) ==
  /\ savers[p].pc = "idle"
  /\ savers[p].totalUpscaled # 0
  /\ savers[p].drains < MaxDrains
  /\ savers' = [savers EXCEPT ![p].pc = "get", ![p].drains = @ + 1]
  /\ UNCHANGED sessionStats
  /\ StatsFrame

\* the storage serves the get of page p
StorageGet(p) ==
  /\ savers[p].pc = "get"
  /\ savers' = [savers EXCEPT ![p].pc = "callback", ![p].result = sessionStats]
  /\ UNCHANGED sessionStats
  /\ StatsFrame

\* the callback of the get runs in page p:
\* stats.totalUpscaled = (stats.totalUpscaled || 0) + pageStats.totalUpscaled,
\* then chrome.storage.local.set({sessionStats: stats})
GetCallback(p) ==
  /\ savers[p].pc = "callback"
  /\ sessionStats' = savers[p].result + savers[p].totalUpscaled
  /\ savers' = [savers EXCEPT ![p].pc = "idle", ![p].result = 0]
  /\ StatsFrame

StatsInit ==
  /\ ScriptInit
  /\ currentSiteHandler = "MangaDex"
  /\ elSrc = [e \in Elems |-> PageUrl(e)]
  /\ elDataUrl = [e \in Elems |-> NoUrl]
  /\ elDims = [e \in Elems |-> "ok"]
  /\ ext = ExtIdle("part_000", 1)
  /\ crit = CritIdle
  /\ BgInit
  /\ StatsIdle
  /\ PopupIdle

StatsNext ==
  \/ \E p \in Pages : PageUpscales(p)
  \/ \E p \in Pages : QueueDrains(p)
  \/ \E p \in Pages : StorageGet(p)
  \/ \E p \in Pages : GetCallback(p)

StatsSpec == StatsInit /\ [][StatsNext]_vars

\* ---------------------------------------------------------- the popup's steps
PopupFrame ==
  UNCHANGED <<currentSiteHandler, initPending, isEnabled, bodyObservers, lastCommand,
              inDom, elSrc, elDataUrl, deco, processedImages, imageQueue,
              isProcessingQueue, workers, totalDetected, totalUpscaled, now,
              lastNotificationTime, shownAt, crashed, oversizeSkipped,
              contextInvalidated, LazyVars, pageStatsQueue, ext, crit, BgVars,
              StatsVars, upscaleTimes, created>>

\* what is stored under 'enabled' once the popup has saved the value
Stored(enabled) == IF enabled THEN "true" ELSE "false"

\* the user opens the popup: init() asks the storage for 'enabled'
PopupOpens ==
  /\ popup.pc = "closed"
  /\ popup' = [popup EXCEPT !.pc = "loading"]
  /\ UNCHANGED <<storedEnabled, toggleMessages>>
  /\ PopupFrame

\* the callback of the get:
\* enabled = result.enabled !== undefined ? result.enabled : true
PopupLoaded ==
  /\ popup.pc = "loading"
  /\ popup' = [pc |-> "open",
               shown |-> IF storedEnabled = "undefined" THEN TRUE
                         ELSE storedEnabled = "true"]
  /\ UNCHANGED <<storedEnabled, toggleMessages>>
  /\ PopupFrame

\* handleToggle: the user flips the switch; the value is stored, shown, and
\* sent to the page with TOGGLE_EXTENSION
HandleToggle ==
  /\ popup.pc = "open"
  /\ Len(toggleMessages) < MaxMessages
  /\ LET enabled == ~popup.shown
     IN  /\ storedEnabled' = Stored(enabled)
         /\ popup' = [popup EXCEPT !.shown = enabled]
         /\ toggleMessages' = Append(toggleMessages, enabled)
  /\ PopupFrame

\* the popup is closed
PopupCloses ==
  /\ popup.pc # "closed"
  /\ popup' = [pc |-> "closed", shown |-> FALSE]
  /\ UNCHANGED <<storedEnabled, toggleMessages>>
  /\ PopupFrame

\* the content script receives the oldest TOGGLE_EXTENSION message
ToggleDelivered ==
  /\ toggleMessages # <<>>
  /\ ToggleExtensionStep(Head(toggleMessages))
  /\ toggleMessages' = Tail(toggleMessages)

\* init() of the content script reads what is stored under 'enabled'
EnabledRead == StorageLoaded(storedEnabled)

\* a supported site after a fresh install
PopupInit ==
  /\ ScriptInit
  /\ isSupportedSite
  /\ elSrc = [e \in Elems |-> PageUrl(e)]
  /\ elDataUrl = [e \in Elems |-> IF currentSiteHandler = "Webtoon" THEN elSrc[e] ELSE NoUrl]
  /\ elDims = [e \in Elems |-> "ok"]
  /\ ext = ExtIdle("part_000", 1)
  /\ crit = CritIdle
  /\ BgInit
  /\ StatsIdle
  /\ PopupIdle

PopupNext ==
  \/ PopupOpens
  \/ PopupLoaded
  \/ HandleToggle
  \/ PopupCloses
  \/ ToggleDelivered
  \/ EnabledRead

PopupSpec == PopupInit /\ [][PopupNext]_vars

\* ------------------------------------------------- the background script runs
PageVars ==
  <<currentSiteHandler, initPending, isEnabled, bodyObservers, lastCommand,
    inDom, elSrc, elDataUrl, deco, processedImages, imageQueue,
    isProcessingQueue, workers, totalDetected, totalUpscaled, now,
    lastNotificationTime, shownAt, crashed, oversizeSkipped,
    contextInvalidated, LazyVars, pageStatsQueue, ext, crit, StatsVars, PopupVars,
    upscaleTimes, created, toggleMessages>>

\* the catch block of handleUpscaleRequest; the listener answers with the error
Fail(tab) ==
  /\ processingQueue' = updateProgress(processingQueue, requests[tab].imageId, "error", 0)
  /\ deleteTimers' = [deleteTimers EXCEPT ![requests[tab].imageId] = @ + 1]
  /\ requests' = [requests EXCEPT ![tab] = Answered(@, "error")]

\* onMessage UPSCALE_IMAGE: handleUpscaleRequest up to its first await
Receive(tab, imageId, hasImageData) ==
  /\ requests[tab].pc = "idle"
  /\ deleteTimers[imageId] + Cardinality(RequestsFor(imageId)) < MaxTimers
  /\ LET r == [IdleRequest EXCEPT !.imageId = imageId, !.hasImageData = hasImageData,
                                  !.flagAtReceipt = serverAvailable]
     IN  IF processingQueue[imageId] # NoEntry
           THEN /\ requests' = [requests EXCEPT ![tab] =
                                  Answered(r, "Already processing this image")]
                /\ UNCHANGED processingQueue
         ELSE IF NeedsHealthCheck(serverAvailable)
           THEN /\ requests' = [requests EXCEPT ![tab] = [r EXCEPT !.pc = "health"]]
                /\ UNCHANGED processingQueue
         ELSE /\ requests' = [requests EXCEPT ![tab] =
                                [r EXCEPT !.pc = StartedPc(hasImageData),
                                          !.attempt = StartedAttempt(hasImageData)]]
              /\ processingQueue' = StartedQueue(processingQueue, imageId, hasImageData)
  /\ UNCHANGED <<serverAvailable, deleteTimers, PageVars>>

\* the health check of a request is answered (or times out)
HealthDone(tab, ok) ==
  /\ requests[tab].pc = "health"
  /\ serverAvailable' = ok
  /\ IF ok
       THEN /\ requests' = [requests EXCEPT ![tab].health = "ok",
                                            ![tab].pc = StartedPc(requests[tab].hasImageData),
                                            ![tab].attempt = StartedAttempt(requests[tab].hasImageData)]
            /\ processingQueue' = StartedQueue(processingQueue, requests[tab].imageId,
                                               requests[tab].hasImageData)
       ELSE /\ requests' = [requests EXCEPT ![tab] =
                              Answered([@ EXCEPT !.health = "failed"], "Server not available")]
            /\ UNCHANGED processingQueue
  /\ UNCHANGED <<deleteTimers, PageVars>>

\* dataUrlToBlob or an attempt of fetchImageWithRetry settles; on success the
\* first attempt of upscaleImage POSTs, a failed fetch is retried after a delay
ImageBlobDone(tab, ok) ==
  /\ requests[tab].pc \in {"dataUrlToBlob", "fetchImageWithRetry"}
  /\ IF ok
       THEN /\ processingQueue' =
                 upscaleAttempt(updateProgress(processingQueue, requests[tab].imageId,
                                               "uploading", 40), requests[tab].imageId)
            /\ requests' = [requests EXCEPT ![tab].pc = "post", ![tab].attempt = 1,
                                            ![tab].posts = @ + 1]
            /\ UNCHANGED <<serverAvailable, deleteTimers>>
       ELSE IF requests[tab].pc = "dataUrlToBlob" \/ LastAttempt(requests[tab].attempt)
         THEN Fail(tab) /\ UNCHANGED serverAvailable
       ELSE /\ requests' = [requests EXCEPT ![tab].pc = "fetchDelay"]
            /\ UNCHANGED <<serverAvailable, processingQueue, deleteTimers>>
  /\ UNCHANGED PageVars

\* delay(RETRY_DELAY) of fetchImageWithRetry is over: the next attempt fetches
FetchDelayDone(tab) ==
  /\ requests[tab].pc = "fetchDelay"
  /\ requests' = [requests EXCEPT ![tab].pc = "fetchImageWithRetry", ![tab].attempt = @ + 1]
  /\ UNCHANGED <<serverAvailable, processingQueue, deleteTimers, PageVars>>

\* POST /upscale is answered, fails or times out
PostDone(tab, ok) ==
  /\ requests[tab].pc = "post"
  /\ IF ok
       THEN /\ processingQueue' = updateProgress(processingQueue, requests[tab].imageId,
                                                 "converting", 90)
            /\ requests' = [requests EXCEPT ![tab].pc = "blobToDataUrl"]
            /\ UNCHANGED <<serverAvailable, deleteTimers>>
       ELSE IF LastAttempt(requests[tab].attempt)
         THEN serverAvailable' = FALSE /\ Fail(tab)
       ELSE /\ requests' = [requests EXCEPT ![tab].pc = "delay"]
            /\ UNCHANGED <<serverAvailable, processingQueue, deleteTimers>>
  /\ UNCHANGED PageVars

\* delay(RETRY_DELAY) is over: the next attempt of upscaleImage POSTs
RetryDelayDone(tab) ==
  /\ requests[tab].pc = "delay"
  /\ processingQueue' = upscaleAttempt(processingQueue, requests[tab].imageId)
  /\ requests' = [requests EXCEPT ![tab].pc = "post", ![tab].attempt = @ + 1,
                                  ![tab].posts = @ + 1]
  /\ UNCHANGED <<serverAvailable, deleteTimers, PageVars>>

\* blobToDataUrl settles
BlobToDataUrlDone(tab, ok) ==
  /\ requests[tab].pc = "blobToDataUrl"
  /\ IF ok
       THEN /\ processingQueue' = updateProgress(processingQueue, requests[tab].imageId,
                                                 "completed", 100)
            /\ deleteTimers' = [deleteTimers EXCEPT ![requests[tab].imageId] = @ + 1]
            /\ requests' = [requests EXCEPT ![tab] = Answered(@, "success")]
       ELSE Fail(tab)
  /\ UNCHANGED <<serverAvailable, PageVars>>

\* setTimeout(() => processingQueue.delete(imageId), ...)
TimerFires(imageId) ==
  /\ deleteTimers[imageId] > 0
  /\ deleteTimers' = [deleteTimers EXCEPT ![imageId] = @ - 1]
  /\ processingQueue' = [processingQueue EXCEPT ![imageId] = NoEntry]
  /\ UNCHANGED <<serverAvailable, requests, PageVars>>

\* checkServerHealth at startup, every 30 s and on CHECK_SERVER
PeriodicHealth(ok) ==
  /\ serverAvailable' = ok
  /\ UNCHANGED <<processingQueue, requests, deleteTimers, PageVars>>

BackgroundInit ==
  /\ ScriptInit
  /\ currentSiteHandler = "MangaDex"
  /\ elSrc = [e \in Elems |-> PageUrl(e)]
  /\ elDataUrl = [e \in Elems |-> IF currentSiteHandler = "Webtoon" THEN elSrc[e] ELSE NoUrl]
  /\ elDims = [e \in Elems |-> "ok"]
  /\ ext = ExtIdle("part_000", 1)
  /\ crit = CritIdle
  /\ BgInit
  /\ StatsIdle
  /\ PopupIdle

BackgroundNext ==
  \/ \E tab \in Tabs, imageId \in Urls, hasImageData \in BOOLEAN :
        Receive(tab, imageId, hasImageData)
  \/ \E tab \in Tabs, ok \in BOOLEAN : HealthDone(tab, ok)
  \/ \E tab \in Tabs, ok \in BOOLEAN : ImageBlobDone(tab, ok)
  \/ \E tab \in Tabs : FetchDelayDone(tab)
  \/ \E tab \in Tabs, ok \in BOOLEAN : PostDone(tab, ok)
  \/ \E tab \in Tabs : RetryDelayDone(tab)
  \/ \E tab \in Tabs, ok \in BOOLEAN : BlobToDataUrlDone(tab, ok)
  \/ \E imageId \in Urls : TimerFires(imageId)
  \/ \E ok \in BOOLEAN : PeriodicHealth(ok)

BackgroundSpec == BackgroundInit /\ [][BackgroundNext]_vars

\* ===================================================================== claims
\* loops holding an item that is being processed
InFlight == {i \in 1..Len(workers) : workers[i].pc \in {"extract", "upscale"}}

\* the QueueItems that exist: queued, or dequeued and being processed
LiveItems ==
  {imageQueue[i] : i \in 1..Len(imageQueue)} \cup {workers[i].item : i \in InFlight}

LiveCount(id) ==
  Cardinality({i \in 1..Len(imageQueue) : imageQueue[i].imageId = id})
  + Cardinality({i \in InFlight : workers[i].item.imageId = id})

\* every identifier an item can carry within the bounds
AllIds == {btoa(u) : u \in 1..(NumUrls * (MaxDetected + NumElems + 1))}

\* number of items whose processing has ended
Finished == totalDetected - Len(imageQueue) - Cardinality(InFlight)

\* C1: an identifier that is in ProcessedSet or belongs to a live QueueItem
\* (queued or being processed) is never enqueued again by a detection pass.
C1_NeverEnqueuedAgain ==
  [][\A id \in AllIds :
       (id \in processedImages \/ LiveCount(id) > 0)
         => LiveCount(id)' <= LiveCount(id)]_vars

\* C2: the queue holds at most one item per identifier, and while the item
\* created for one element exists, the detection of another element with the
\* same identifier creates no second item.
C2_OneItemPerIdentifier ==
  /\ \A i, j \in 1..Len(imageQueue) :
       imageQueue[i].imageId = imageQueue[j].imageId => i = j
  /\ \A a, b \in LiveItems : a.imageId = b.imageId => a.img = b.img

\* C3: at most one processQueue loop is active and at most one UPSCALE_IMAGE
\* request is outstanding.
C3_AtMostOneInFlight ==
  /\ Len(workers) <= 1
  /\ Cardinality({i \in 1..Len(workers) : workers[i].pc = "upscale"}) <= 1

\* an upscale request is outstanding while items wait and a detection pass has
\* called processQueue again
C3_Witness ==
  /\ Len(workers) = 1
  /\ workers[1].pc = "upscale"
  /\ Len(imageQueue) >= 2

IsSortedByPosition(q) ==
  \A i, j \in 1..Len(q) : i < j => q[i].verticalPosition <= q[j].verticalPosition

\* loop i takes a new item in this step
Dequeues(i) ==
  /\ i \in 1..Len(workers')
  /\ workers'[i].pc = "extract"
  /\ Finished' > Finished \/ totalDetected' > totalDetected
  /\ i > Len(workers) \/ workers[i].pc # "extract" \/ workers'[i] # workers[i]

\* C4: the queue is sorted by ascending vertical offset after every insertion
\* and the item the worker takes is not below any item left in the queue.
C4_ServicedInPageOrder ==
  /\ [](IsSortedByPosition(imageQueue))
  /\ [][\A i \in 1..MaxLoops :
          Dequeues(i) =>
            \A k \in 1..Len(imageQueue') :
              workers'[i].item.verticalPosition <= imageQueue'[k].verticalPosition]_vars

\* two items of different offsets wait together, the lower one inserted last
C4_Witness ==
  /\ Len(imageQueue) = 2
  /\ imageQueue[1].verticalPosition < imageQueue[2].verticalPosition
  /\ imageQueue[1].img < imageQueue[2].img
  /\ Len(workers) = 1

\* C5: whatever way the items fail, the worker dequeues them all: a non-empty
\* queue eventually becomes empty, the fatal stop on an invalidated extension
\* context (the subject of C7) set aside.
C5_QueueDrains ==
  (imageQueue # <<>>) ~> (imageQueue = <<>> \/ contextInvalidated)

\* C6: processQueue never ends by an uncaught exception and isProcessingQueue
\* is true only while a loop is running.
C6_FailuresCaught ==
  /\ ~crashed
  /\ isProcessingQueue => workers # <<>>

\* C7: once an item has failed with 'Extension context invalidated' no loop
\* runs for the rest of the page session.
C7_InvalidatedIsFatal ==
  contextInvalidated => (workers = <<>> /\ ~isProcessingQueue)

\* the item of loop i fails in this step without ending the loop: the catch
\* block or the success = false branch leads to the inter-item delay
FailsItem(i) ==
  /\ i \in InFlight
  /\ i \in 1..Len(workers')
  /\ workers'[i].pc = "delay"
  /\ totalUpscaled' = totalUpscaled

\* C8: when an item fails, ProcessedSet and totalUpscaled are unchanged, the
\* element's loading decoration is cleared, and the identifier can be detected
\* again (it is neither processed nor queued).
C8_FailureLeavesRetryable ==
  [][\A i \in 1..MaxLoops :
       FailsItem(i) =>
         LET it == workers[i].item IN
         /\ processedImages' = processedImages
         /\ ~deco'[it.img].hidden
         /\ ~deco'[it.img].overlay
         /\ it.imageId \notin processedImages'
         /\ ~AlreadyInQueue(imageQueue', it.imageId)]_vars

\* C9: an identifier skipped for exceeding the size ceiling is never given a
\* QueueItem again.
C9_OversizeSkipIsPermanent ==
  [][\A id \in oversizeSkipped : LiveCount(id)' <= LiveCount(id)]_vars

\* the oversize branch runs in this step
OversizeStep ==
  \/ oversizeSkipped' # oversizeSkipped
  \/ /\ Len(workers) = 1
     /\ workers[1].pc = "extract"
     /\ Finished' = Finished + 1
     /\ ~contextInvalidated'
     /\ ~crashed'
     /\ workers' = <<>> \/ workers'[1].pc = "extract"

\* the step appends a notification to the document
NotificationDisplayed == lastNotificationTime' # lastNotificationTime

\* C10: every oversize rejection displays a notification.
C10_OversizeAlwaysNotified ==
  [][OversizeStep => NotificationDisplayed]_vars

\* C10 amended: an oversize rejection displays a notification exactly when no
\* notification was displayed during the NOTIFICATION_COOLDOWN before it.
C10_OversizeNotifiedUnlessCooldown ==
  [][OversizeStep =>
       (NotificationDisplayed <=> ~(now - lastNotificationTime < NOTIFICATION_COOLDOWN))]_vars

\* the only item detected was skipped as oversize and its notification is shown
C10_Witness ==
  /\ totalDetected = 1
  /\ Cardinality(oversizeSkipped) = 1
  /\ workers = <<>>
  /\ lastNotificationTime = now

\* a loop that was suspended before the step takes the next item in it
TakesNextItem == Len(imageQueue') < Len(imageQueue)

\* C11: the worker passes through the inter-item delay before it dequeues the
\* next item, whatever the outcome of the item before.
C11_DelayBetweenItems ==
  [][TakesNextItem => \E i \in 1..Len(workers) : workers[i].pc = "delay"]_vars

\* number of processImage runs that the insertion of one <img> triggers
PipelineRuns == bodyObservers

\* C18: the insertion of an <img> runs processImage exactly once whenever
\* detection has been started, and never more than once.
C18_OncePerInsertion ==
  [][(\E e \in Elems : NodeAdded(e)) =>
       /\ PipelineRuns <= 1
       /\ (isEnabled /\ ~initPending) => PipelineRuns = 1]_vars

\* C19: while the last command received is a disable command no QueueItem is
\* created, and a disable command removes neither the queued items nor the
\* item in flight.
C19_DisableAdmitsNothing ==
  [][/\ (lastCommand = "disable" /\ lastCommand' = "disable")
          => totalDetected' = totalDetected
     /\ (lastCommand # "disable" /\ lastCommand' = "disable")
          => (imageQueue' = imageQueue /\ workers' = workers)]_vars

\* C20: whenever items wait in the queue a worker loop is active, the fatal
\* stop on an invalidated extension context (the subject of C7) set aside.
C20_WorkerActiveWhileQueued ==
  (imageQueue # <<>> /\ ~contextInvalidated) => workers # <<>>

\* C15: however often meetsImageCriteria runs on an element whose dimensions
\* are not known, at most one load listener is pending on the element, and
\* exactly one while dataset.loadListenerAdded is set.
C15_OneLoadListener ==
  \A e \in Elems :
    /\ loadListeners[e] <= 1
    /\ e \in loadListenerAdded => loadListeners[e] = 1

\* an element with a URL and without dimensions has been detected and its
\* listener is pending, while a second element waits for its URL
C15_Witness ==
  /\ isEnabled
  /\ getImageUrl(1) # NoUrl
  /\ ~DimensionsResolved(1)
  /\ loadListeners[1] = 1
  /\ 1 \in loadListenerAdded
  /\ urlWatchers[2] = 1

\* number of processImage runs made by one URL watcher's callback: one for
\* each record of the batch
RunsPerWatcher(e) == pendingRecords[e]

\* C16: a URL watcher that fires re-runs the pipeline for its element exactly
\* once, whatever the number of records in the batch.
C16_WatcherRunsOnce ==
  [][\A e \in Elems : WatcherFires(e) => RunsPerWatcher(e) = 1]_vars

\* C17: each element has at most one active URL watcher, and
\* dataset.urlObserverAdded is set exactly when one is active.
C17_OneUrlWatcher ==
  \A e \in Elems :
    /\ urlWatchers[e] <= 1
    /\ e \in urlObserverAdded <=> urlWatchers[e] = 1

\* the tiers in the order of the fallback chain
Tiers == <<"canvas", "direct", "background">>

Failed(a) == a.outcome \notin {"ok", "pending"}

\* C12: with needsBackgroundFetch false the tiers are tried in the order
\* canvas, direct fetch, background fetch; a tier is tried only after the one
\* before it has failed; the call resolves with the data of the first tier
\* that succeeds and rejects only after the background fetch has failed.
C12_TiersInOrder ==
  ~needsBackgroundFetch =>
    /\ Len(ext.attempted) <= 3
    /\ \A i \in 1..Len(ext.attempted) : ext.attempted[i].tier = Tiers[i]
    /\ \A i \in 1..(Len(ext.attempted) - 1) : Failed(ext.attempted[i])
    /\ ext.result \notin {"none", "rejected"} =>
          /\ ext.result = CurrentTier(ext)
          /\ ext.attempted[Len(ext.attempted)].outcome = "ok"
    /\ ext.result = "rejected" =>
          /\ Len(ext.attempted) = 3
          /\ Failed(ext.attempted[3])
    /\ ext.pc = "done" => ext.result # "none"

\* all three tiers were tried in turn and the call rejected
C12_Witness ==
  /\ ~needsBackgroundFetch
  /\ Len(ext.attempted) = 3
  /\ ext.result = "rejected"

\* C13: with needsBackgroundFetch true no tier but the background fetch is
\* ever attempted.
C13_OnlyBackground ==
  needsBackgroundFetch =>
    \A i \in 1..Len(ext.attempted) : ext.attempted[i].tier = "background"

BackgroundOutcome == ext.attempted[Len(ext.attempted)].outcome

\* C14: the background fetch yields data only for a response with success =
\* true; an absent response fails with the error that reports the missing
\* response, a response with success = false with the error of the failed
\* upstream fetch.
C14_BackgroundErrors ==
  (ext.pc = "done" /\ CurrentTier(ext) = "background") =>
    /\ ext.result = "background" <=> BackgroundOutcome = "ok"
    /\ BackgroundOutcome = "noResponse" =>
          (ext.result = "rejected" /\ ext.error = "NoResponse")
    /\ BackgroundOutcome = "failure" =>
          (ext.result = "rejected" /\ ext.error = "UpstreamFailed")

\* r is q with `it` inserted behind the items of q that have its offset
InsertedBehindTies(q, r, it) ==
  \E k \in 1..Len(r) :
    /\ r[k] = it
    /\ RemoveAt(r, k) = q
    /\ \A i \in 1..Len(q) : q[i].verticalPosition = it.verticalPosition => i < k

\* C30: the push and sort of processImage leave the items already queued in
\* their order and put the new item behind every queued item with the same
\* recorded offset, so that items that tie are serviced in the order of
\* their insertion.
C30_FifoAmongTies ==
  \A e \in Elems :
    ~AlreadyInQueue(imageQueue, getImageId(e)) =>
      InsertedBehindTies(imageQueue, Enqueue(imageQueue, QueueItem(e)), QueueItem(e))

\* two items with the same offset wait in the queue behind an item in flight
C30_Witness ==
  /\ Len(imageQueue) >= 2
  /\ imageQueue[1].verticalPosition = imageQueue[2].verticalPosition
  /\ imageQueue[1].img < imageQueue[2].img
  /\ InFlight # {}

Reported(snapshot, id) == \E k \in 1..Len(snapshot) : snapshot[k] = id

\* C28: the item a loop is processing is part of the queue that the page
\* reports: of the snapshot a GET_PAGE_STATS request is answered with, and of
\* the snapshot last sent with PAGE_STATS_UPDATE.
C28_InFlightItemReported ==
  \A i \in InFlight :
    /\ Reported(QueueSnapshot(imageQueue), workers[i].item.imageId)
    /\ Reported(pageStatsQueue, workers[i].item.imageId)

\* C27: on a page whose hostname matches no registered domain the Generic
\* handler is used, and once the extension has been enabled an image of the
\* page is detected and enqueued.
C27_GenericSiteDetects ==
  (currentSiteHandler = "Generic" /\ lastCommand = "enable" /\ inDom # {})
    => totalDetected > 0

\* C24: any two notifications that are displayed are at least
\* NOTIFICATION_COOLDOWN apart, however many items fail.
C24_NotificationsRateLimited ==
  \A i, j \in 1..Len(shownAt) :
    i < j => shownAt[j] - shownAt[i] >= NOTIFICATION_COOLDOWN

\* a second notification was displayed when the cool-down of the first had
\* just elapsed
C24_Witness ==
  /\ Len(shownAt) = 2
  /\ shownAt[2] - shownAt[1] = NOTIFICATION_COOLDOWN

\* C25: no QueueItem exists for an image whose resolved URL is classified as
\* animated, whatever its dimensions and whatever site handler is selected.
C25_NoAnimatedItem ==
  \A it \in LiveItems : it.actualUrl \notin AnimatedUrls

\* detection has run over a loaded animated image and over another image,
\* and created an item for the other one alone
C25_Witness ==
  /\ isEnabled
  /\ bodyObservers > 0
  /\ totalDetected > 0
  /\ \E e \in inDom : getImageUrl(e) \in AnimatedUrls /\ DimensionsResolved(e)

\* C26: for a fully loaded image with non-zero natural dimensions (that is
\* not a placeholder standing in for a lazy-loaded one) meetsImageCriteria
\* returns true exactly when 200 <= width <= 3000 and 200 <= height <= 20000,
\* and it registers no load listener.
C26_SizeWindow ==
  (/\ crit.pc = "done"
   /\ crit.complete /\ ~crit.isPlaceholderLoaded
   /\ crit.naturalWidth > 0 /\ crit.naturalHeight > 0)
    => /\ crit.result <=> (/\ 200 <= crit.naturalWidth /\ crit.naturalWidth <= 3000
                           /\ 200 <= crit.naturalHeight /\ crit.naturalHeight <= 20000)
       /\ ~crit.registered

\* C29: the background script never has two POST /upscale requests
\* outstanding at the same time, also when several tabs send requests.
C29_OnePostAtATime ==
  Cardinality({tab \in Tabs : requests[tab].pc = "post"}) <= 1

\* C23: the status recorded in processingQueue for a request only moves
\* forward (queued 0, fetching or converting 20, uploading 40, processing 60,
\* converting 90, completed 100) or goes to error from a non-terminal status;
\* an entry that is completed or error is never given another status.
C23_StatusMovesForward ==
  [][\A id \in Urls :
       LET old == processingQueue[id]
           new == processingQueue'[id]
       IN  (old # NoEntry /\ new # NoEntry /\ new # old)
             => /\ old.status \notin {"completed", "error"}
                /\ new.status = "error" \/ new.progress > old.progress]_vars

\* C21: a request whose last upload attempt fails is answered with an error
\* and serverAvailable is cleared; a request that found the flag false has
\* made no POST /upscale unless its own health check succeeded, and a request
\* whose health check failed is answered 'Server not available' without POST.
C21_FailedUploadForcesHealthCheck ==
  /\ [][\A tab \in Tabs :
          (/\ requests[tab].pc = "post" /\ requests[tab].attempt = MAX_RETRIES
           /\ requests'[tab].pc = "idle")
            => ~serverAvailable' /\ requests'[tab].response = "error"]_vars
  /\ [](\A tab \in Tabs :
          /\ (requests[tab].posts > 0 /\ ~requests[tab].flagAtReceipt)
                => requests[tab].health = "ok"
          /\ requests[tab].health = "failed"
                => /\ requests[tab].response = "Server not available"
                   /\ requests[tab].posts = 0)

\* one tab's upload failed after MAX_RETRIES attempts, the flag is cleared,
\* and the other tab's later request was refused after a failed health check
C21_Witness ==
  /\ ~serverAvailable
  /\ requests[1].pc = "idle" /\ requests[1].response = "error"
  /\ requests[1].posts = MAX_RETRIES
  /\ requests[2].pc = "idle" /\ requests[2].response = "Server not available"
  /\ ~requests[2].flagAtReceipt /\ requests[2].posts = 0

\* C22: every network operation on an item's path is bounded by a timeout,
\* so an extraction that was started settles (resolves or rejects) even when
\* the endpoint never responds, and the worker can go on.
C22_ExtractionSettles ==
  (ext.pc \notin {"idle", "done"}) ~> (ext.pc = "done")

\* C33: at most one upscale pipeline per image id is active at any time: two
\* requests with the same imageId never both pass the 'already processing'
\* guard, also when the second arrives during the health check of the first.
C33_OnePipelinePerId ==
  \A id \in Urls : Cardinality(RequestsFor(id)) <= 1

\* C32: a request is answered 'Already processing this image' only while an
\* earlier request for the same image id is still in progress.
C32_RejectedOnlyWhileInProgress ==
  [][\A tab \in Tabs :
       (/\ requests'[tab] # requests[tab]
        /\ requests'[tab].response = "Already processing this image")
         => RequestsFor(requests'[tab].imageId) # {}]_vars

\* C31: each retry loop makes at most MAX_RETRIES attempts, a new attempt
\* follows a delay, the request fails in a loop only at the last attempt, a
\* successful attempt ends the loop, and a step of upscaleImage clears
\* serverAvailable only when its last attempt fails.
C31_RetryLoops ==
  /\ [](\A tab \in Tabs : /\ requests[tab].attempt <= MAX_RETRIES
                           /\ requests[tab].posts <= MAX_RETRIES)
  /\ [][\A tab \in Tabs :
          LET r == requests[tab]
              n == requests'[tab]
          IN  /\ (r.pc \in {"fetchImageWithRetry", "post"} /\ n.pc = "idle")
                    => r.attempt = MAX_RETRIES
              /\ (n.pc = "post" /\ n.attempt > 1 /\ n # r) => r.pc = "delay"
              /\ (n.pc = "fetchImageWithRetry" /\ n.attempt > 1 /\ n # r)
                    => r.pc = "fetchDelay"
              /\ r.pc = "blobToDataUrl" => n.posts = r.posts
              /\ (r.pc = "post" /\ n # r /\ serverAvailable /\ ~serverAvailable')
                    => r.attempt = MAX_RETRIES /\ n.response = "error"]_vars

\* an upload that succeeded at its second attempt, the flag still set
C31_Witness ==
  \E tab \in Tabs :
    /\ requests[tab].pc = "blobToDataUrl" /\ requests[tab].attempt = 2
    /\ requests[tab].posts = 2 /\ serverAvailable

\* C34: no QueueItem is ever created for the upscaled result that replaceImage
\* has put into an element: the URL of every queued or in-flight item is an
\* original URL of the page, for every site handler.
C34_UpscaledNeverEnqueued ==
  \A it \in LiveItems : it.actualUrl \in Urls

\* C35: whenever no worker loop is running, no image is hidden or carries a
\* loading overlay.
C35_DecorationCleared ==
  (workers = <<>> /\ ~isProcessingQueue) =>
    \A e \in Elems : ~deco[e].hidden /\ ~deco[e].overlay /\ deco[e].stale = 0

\* C37: in every reachable state of a page totalUpscaled is the length of
\* upscaleTimes and at most totalDetected, and totalDetected is the number of
\* QueueItems created so far.
C37_CountersAgree ==
  /\ totalUpscaled = Len(upscaleTimes)
  /\ totalUpscaled <= totalDetected
  /\ totalDetected = created

\* two images upscaled of three detected
C37_Witness ==
  /\ totalUpscaled = 2 /\ Len(upscaleTimes) = 2
  /\ totalDetected = 3 /\ created = 3

\* C36: sessionStats.totalUpscaled never exceeds the number of images that
\* were upscaled: no upscale is added to it more than once, however often the
\* queues drain.
C36_CountedOnce ==
  sessionStats <= SumUpscaled(Pages)

\* C38: the save of a page adds the page's contribution to what the storage
\* holds when it writes, so that what another page has saved in the meantime
\* is kept.
C38_NoContributionLost ==
  [][\A p \in Pages :
       (savers[p].pc = "callback" /\ savers'[p].pc = "idle")
         => sessionStats' >= sessionStats + savers[p].totalUpscaled]_vars

\* C39: whenever the popup shows 'Enabled', the content script has read its
\* setting and no command is on its way, the content script is enabled.
C39_PopupAndPageAgree ==
  (/\ popup.pc = "open" /\ popup.shown
   /\ ~initPending /\ toggleMessages = <<>>)
    => isEnabled

====
